---- MODULE Spec2Model ----
(***************************************************************************)
(* A model of app.py, the Streamlit "Live JSON Endpoint Manager".          *)
(*                                                                         *)
(* app.py is a script. Streamlit executes the whole script, top to bottom, *)
(* once per script run; a run belongs to one browser session, and the runs *)
(* of different sessions execute on different threads of one process.  The *)
(* only state shared by runs is the file endpoints.json; a session keeps   *)
(* st.session_state and st.query_params from one of its runs to the next.  *)
(* Every name bound by a statement of the script (file_lock of line 11     *)
(* included) is bound anew by each run.                                    *)
(***************************************************************************)
EXTENDS Integers, Sequences, FiniteSets, TLC

(***************************************************************************)
(* Bounds of the model.                                                    *)
(***************************************************************************)
\* Script runs started by a user event (a page load, a click, a rerun).
MaxRuns == 2
\* I/O errors injected into save_endpoints.
MaxFaults == 1

Sessions == {"s1", "s2"}

(***************************************************************************)
(* JSON values, as json.loads builds them: a dict, a list, an int, a str.  *)
(* One record shape for every kind keeps values comparable.  A list        *)
(* element is a number or a two-element list [string, number].             *)
(***************************************************************************)
Keys == {"k1", "k2"}

NoFields == [k \in {} |-> 0]

JObject(f) == [kind |-> "object", obj |-> f, arr |-> <<>>, num |-> 0, str |-> ""]
JArray(a) == [kind |-> "array", obj |-> NoFields, arr |-> a, num |-> 0, str |-> ""]
JNumber(n) == [kind |-> "number", obj |-> NoFields, arr |-> <<>>, num |-> n, str |-> ""]
JString(c) == [kind |-> "string", obj |-> NoFields, arr |-> <<>>, num |-> 0, str |-> c]

PairElem(k, v) == [pair |-> TRUE, k |-> k, v |-> v]
NumElem(v) == [pair |-> FALSE, k |-> "", v |-> v]

IsObject(d) == d.kind = "object"

(***************************************************************************)
(* JSON text, as the user types it into a text area: a sequence of tokens. *)
(* A token is a punctuation mark, a numeral or a string literal (written   *)
(* here by its content).                                                   *)
(***************************************************************************)
NumToks == {"1", "2"}
StrToks == Keys \cup {""}

NumVal(tok) == IF tok = "1" THEN 1 ELSE 2

\* Characters of a string literal's content (every key has two).
StrLen(c) == IF c = "" THEN 0 ELSE 2

ParseOk(v) == [ok |-> TRUE, val |-> v]
ParseError == [ok |-> FALSE, val |-> JNumber(0)]

\* The members of an object from token i on: key ":" number, then "," or "}".
\* A repeated key keeps its last value, as a Python dict does.
RECURSIVE ParseMembers(_, _, _)
ParseMembers(t, i, f) ==
    IF i + 3 > Len(t) \/ t[i] \notin Keys \/ t[i + 1] # ":" \/ t[i + 2] \notin NumToks
    THEN ParseError
    ELSE LET g == [k \in (DOMAIN f) \cup {t[i]} |->
                      IF k = t[i] THEN NumVal(t[i + 2]) ELSE f[k]]
         IN  IF t[i + 3] = "}" /\ i + 3 = Len(t) THEN ParseOk(JObject(g))
             ELSE IF t[i + 3] = "," THEN ParseMembers(t, i + 4, g)
             ELSE ParseError

\* The elements of an array from token i on: a number or [string, number],
\* then "," or "]".
RECURSIVE ParseElements(_, _, _)
ParseElements(t, i, a) ==
    LET isNum == i + 1 <= Len(t) /\ t[i] \in NumToks
        isPair == /\ i + 5 <= Len(t)
                  /\ t[i] = "[" /\ t[i + 1] \in StrToks /\ t[i + 2] = ","
                  /\ t[i + 3] \in NumToks /\ t[i + 4] = "]"
        n == IF isNum THEN 1 ELSE 5
        e == IF isNum THEN NumElem(NumVal(t[i]))
             ELSE PairElem(t[i + 1], NumVal(t[i + 3]))
    IN  IF ~(isNum \/ isPair) THEN ParseError
        ELSE IF t[i + n] = "]" /\ i + n = Len(t) THEN ParseOk(JArray(Append(a, e)))
        ELSE IF t[i + n] = "," THEN ParseElements(t, i + n + 1, Append(a, e))
        ELSE ParseError

\* json.loads: the value of a text, or json.JSONDecodeError.
json_loads(t) ==
    IF t = <<>> THEN ParseError
    ELSE IF Len(t) = 1 /\ t[1] \in NumToks THEN ParseOk(JNumber(NumVal(t[1])))
    ELSE IF Len(t) = 1 /\ t[1] \in StrToks THEN ParseOk(JString(t[1]))
    ELSE IF t = <<"{", "}">> THEN ParseOk(JObject(NoFields))
    ELSE IF t = <<"[", "]">> THEN ParseOk(JArray(<<>>))
    ELSE IF t[1] = "{" THEN ParseMembers(t, 2, NoFields)
    ELSE IF t[1] = "[" THEN ParseElements(t, 2, <<>>)
    ELSE ParseError

(***************************************************************************)
(* The texts a user submits.                                               *)
(***************************************************************************)
TextEmpty == <<>>
TextK1 == <<"{", "k1", ":", "1", "}">>
TextK2 == <<"{", "k2", ":", "1", "}">>
TextNumber == <<"1">>
TextPairs == <<"[", "[", "k2", ",", "2", "]", "]">>
TextBad == <<"{", "k1", ":">>

Texts == {TextEmpty, TextK1, TextK2, TextNumber, TextPairs, TextBad}

(***************************************************************************)
(* Endpoint names: sequences of characters.                                *)
(***************************************************************************)
NoName == <<"<None>">>

NameEmpty == <<>>
NameA == <<"a">>
NameB == <<" ", "B">>
KeyB == <<"b">>

RawNames == {NameEmpty, NameA, NameB}

Lower(c) == IF c = "A" THEN "a" ELSE IF c = "B" THEN "b" ELSE c

RECURSIVE LStrip(_)
LStrip(n) == IF n # <<>> /\ Head(n) = " " THEN LStrip(Tail(n)) ELSE n

RECURSIVE RStrip(_)
RStrip(n) ==
    IF n # <<>> /\ n[Len(n)] = " " THEN RStrip(SubSeq(n, 1, Len(n) - 1)) ELSE n

\* new_endpoint_name.strip().lower().replace(" ", "_")
CleanName(n) ==
    LET s == RStrip(LStrip(n))
    IN  [i \in 1..Len(s) |-> IF Lower(s[i]) = " " THEN "_" ELSE Lower(s[i])]

\* Python truth of a str (or of None): non-empty.
Truthy(n) == n # NoName /\ n # <<>>

(***************************************************************************)
(* dict.update(incoming_data) on the endpoint's document (line 53).  The   *)
(* document must be a dict (a list, an int or a str has no update); the    *)
(* argument is a dict, or an iterable of pairs: a list is read element by  *)
(* element, a str character by character, an int is not iterable.          *)
(***************************************************************************)
\* A merge in which the document's own value wins over the argument's.
MergeKeepsExisting(f, g) ==
    [k \in (DOMAIN f) \cup (DOMAIN g) |-> IF k \in DOMAIN f THEN f[k] ELSE g[k]]

Merge(f, g) == [k \in (DOMAIN f) \cup (DOMAIN g) |-> IF k \in DOMAIN g THEN g[k] ELSE f[k]]

RECURSIVE UpdatePairs(_, _, _)
UpdatePairs(f, a, i) ==
    IF i > Len(a) THEN [exc |-> "none", val |-> JObject(f)]
    ELSE IF ~a[i].pair THEN [exc |-> "TypeError", val |-> JObject(f)]
    ELSE UpdatePairs(Merge(f, [k \in {a[i].k} |-> a[i].v]), a, i + 1)

DictUpdate(e, p) ==
    IF ~IsObject(e) THEN [exc |-> "AttributeError", val |-> e]
    ELSE IF p.kind = "object" THEN [exc |-> "none", val |-> JObject(Merge(e.obj, p.obj))]
    ELSE IF p.kind = "array" THEN UpdatePairs(e.obj, p.arr, 1)
    ELSE IF p.kind = "string" THEN
        [exc |-> IF p.str = "" THEN "none" ELSE "ValueError", val |-> e]
    ELSE [exc |-> "TypeError", val |-> e]

(***************************************************************************)
(* endpoints.json.  json.dump(endpoints_dict, f, indent=2) writes one      *)
(* text; the model keeps the mapping the text denotes, whether the text is *)
(* a complete JSON document, and the number of characters.                 *)
(***************************************************************************)
EmptyMap == [n \in {} |-> JNumber(0)]

RECURSIVE Sum(_, _)
Sum(f, S) == IF S = {} THEN 0
             ELSE LET x == CHOOSE y \in S : TRUE IN f[x] + Sum(f, S \ {x})

\* Characters of a [string, number] list whose brackets stand at depth L.
PairSize(e, L) ==
    1 + (1 + 2 * (L + 1) + StrLen(e.k) + 2) + 1 + (1 + 2 * (L + 1) + 1) + 1 + 2 * L + 1

\* Characters of a value whose own members are indented by 2 * (L + 1).
DocSize(d, L) ==
    IF d.kind = "number" THEN 1
    ELSE IF d.kind = "string" THEN StrLen(d.str) + 2
    ELSE IF d.kind = "object" THEN
        IF DOMAIN d.obj = {} THEN 2
        ELSE 1 + Sum([k \in DOMAIN d.obj |-> 1 + 2 * (L + 1) + StrLen(k) + 2 + 2 + 1],
                     DOMAIN d.obj)
               + (Cardinality(DOMAIN d.obj) - 1) + 1 + 2 * L + 1
    ELSE IF d.arr = <<>> THEN 2
    ELSE 1 + Sum([i \in DOMAIN d.arr |->
                     1 + 2 * (L + 1) + (IF d.arr[i].pair THEN PairSize(d.arr[i], L + 1) ELSE 1)],
                 DOMAIN d.arr)
           + (Len(d.arr) - 1) + 1 + 2 * L + 1

\* Characters of json.dumps(m, indent=2).
DumpSize(m) ==
    IF DOMAIN m = {} THEN 2
    ELSE 1 + Sum([n \in DOMAIN m |-> 1 + 2 + Len(n) + 2 + 2 + DocSize(m[n], 1)], DOMAIN m)
           + (Cardinality(DOMAIN m) - 1) + 1 + 1

AbsentFile == [exists |-> FALSE, valid |-> FALSE, data |-> EmptyMap, size |-> 0]
WholeFile(m) == [exists |-> TRUE, valid |-> TRUE, data |-> m, size |-> DumpSize(m)]
BrokenFile(n) == [exists |-> TRUE, valid |-> FALSE, data |-> EmptyMap, size |-> n]

\* An open that does not cut the file (mode "r+").
OpenForUpdate(f) == f

\* open(DATA_FILE, "w") (line 28): the file is created or cut to no bytes.
OpenForWrite(f) == BrokenFile(0)

\* json.dump and the close of line 28-29: the text goes to the file from
\* offset 0.  Bytes another writer has put beyond its end stay, and then the
\* file is no JSON document.
WriteText(f, m) ==
    IF DumpSize(m) >= f.size THEN WholeFile(m) ELSE BrokenFile(f.size)

\* A write that raises OSError after n characters of the text reached the file.
WritePart(f, m, n) ==
    IF n = 0 \/ (f.valid /\ f.data = m) THEN f
    ELSE BrokenFile(IF n >= f.size THEN n ELSE f.size)

\* load_endpoints (lines 13-23): {} for no file and for a file json.load
\* rejects, else the mapping.
load_endpoints(f) == IF f.exists /\ f.valid THEN f.data ELSE EmptyMap

(***************************************************************************)
(* State.                                                                  *)
(***************************************************************************)
VARIABLES
    file,            \* endpoints.json (DATA_FILE, line 10)
    query_params,    \* per session: st.query_params.get("endpoint")
    post_data,       \* per session: st.session_state.post_data
    pc,              \* per session: where its script run stands
    file_lock,       \* per session: its run's file_lock is held
    widget,          \* per session: the form or button that started the run
    endpoint_name,   \* per run: line 42
    endpoints_data,  \* per run: the dict a load_endpoints returned
    incoming_data,   \* per run: line 52
    out,             \* per run: what the run has shown (st.json, st.error, ...)
    routed,          \* per run: the branch of lines 45-70 taken, and whether
                     \* post_data was in the session state when it was taken
    runs,            \* script runs started by a user so far
    faults,          \* I/O errors so far
    persisted,       \* history: the last mapping completely written to the file
    undisturbed,     \* history, per run: since the run began no create or delete
                     \* has written the file and no write has failed
    overlapped       \* history: a run has read or written the file between
                     \* the open and the write of another run's save_endpoints

vars == <<file, query_params, post_data, pc, file_lock, widget, endpoint_name,
          endpoints_data, incoming_data, out, routed, runs, faults, persisted,
          undisturbed, overlapped>>

NoText == <<"<unset>">>
NoDoc == [kind |-> "none", obj |-> NoFields, arr |-> <<>>, num |-> 0, str |-> ""]
NoWidget == [kind |-> "none", name |-> NoName, text |-> <<>>]
Shown(status, doc) == [status |-> status, doc |-> doc]
Nothing == Shown("none", NoDoc)
Routed(action, staged) == [action |-> action, staged |-> staged]

\* The names under which documents are stored and asked for.
KeyNames == {CleanName(n) : n \in RawNames \ {NameEmpty}}
QueryNames == {NoName} \cup RawNames \cup KeyNames

DocA == JObject(NoFields)
InitFiles == {AbsentFile, WholeFile(NameA :> DocA)}

Init ==
    /\ file \in InitFiles
    /\ query_params = [s \in Sessions |-> NoName]
    /\ post_data = [s \in Sessions |-> NoText]
    /\ pc = [s \in Sessions |-> "idle"]
    /\ file_lock = [s \in Sessions |-> FALSE]
    /\ widget = [s \in Sessions |-> NoWidget]
    /\ endpoint_name = [s \in Sessions |-> NoName]
    /\ endpoints_data = [s \in Sessions |-> EmptyMap]
    /\ incoming_data = [s \in Sessions |-> NoDoc]
    /\ out = [s \in Sessions |-> Nothing]
    /\ routed = [s \in Sessions |-> Routed("none", FALSE)]
    /\ runs = 0
    /\ faults = 0
    /\ persisted = load_endpoints(file)
    /\ undisturbed = [s \in Sessions |-> TRUE]
    /\ overlapped = FALSE

(***************************************************************************)
(* The script, from its first line to its first access to the file.        *)
(* pc "L<n>" is: inside the load_endpoints called at line n, lock held,    *)
(* file not yet read.                                                      *)
(***************************************************************************)

\* Lines 42-45 and 106, 134 without the tests of lines 107 and 135: a
\* submitted form is handled whatever its fields hold.
FirstLoadUnchecked(q, w) ==
    IF Truthy(q) THEN "L46"
    ELSE IF w.kind = "create" THEN "L110"
    ELSE IF w.kind = "post" THEN "L136"
    ELSE "L156"

\* Lines 42-45 and 106-107, 134-135: which load_endpoints the run reaches
\* first.  A truthy endpoint name selects the API handling mode.
FirstLoad(q, w) ==
    IF Truthy(q) THEN "L46"
    ELSE IF w.kind = "create" /\ Truthy(w.name) /\ w.text # <<>> THEN "L110"
    ELSE IF w.kind = "post" /\ Truthy(w.name) /\ w.text # <<>> THEN "L136"
    ELSE "L156"

\* Lines 117-118, 150-151: a form submitted with a field left empty.
FirstMessage(q, w) ==
    IF Truthy(q) THEN Nothing
    ELSE IF w.kind = "create" /\ ~(Truthy(w.name) /\ w.text # <<>>)
        THEN Shown("create_missing_input", NoDoc)
    ELSE IF w.kind = "post" /\ ~(Truthy(w.name) /\ w.text # <<>>)
        THEN Shown("update_missing_input", NoDoc)
    ELSE Nothing

\* The widget values the run still reads after line 45: none in the API mode,
\* none of a form rejected for an empty field.
Pending(q, w) ==
    IF FirstLoad(q, w) \in {"L110", "L136"} \/ (~Truthy(q) /\ w.kind = "delete")
    THEN w ELSE NoWidget

\* A run of session s begins with widget w pressed and endpoint parameter q.
Begin(s, q, w) ==
    /\ widget' = [widget EXCEPT ![s] = Pending(q, w)]
    /\ endpoint_name' = [endpoint_name EXCEPT ![s] = q]
    /\ endpoints_data' = [endpoints_data EXCEPT ![s] = EmptyMap]
    /\ incoming_data' = [incoming_data EXCEPT ![s] = NoDoc]
    /\ out' = [out EXCEPT ![s] = FirstMessage(q, w)]
    /\ routed' = [routed EXCEPT ![s] =
            IF Truthy(q) THEN Routed("none", FALSE)
            ELSE Routed("RENDER_MANAGEMENT_VIEW", post_data'[s] # NoText)]
    /\ pc' = [pc EXCEPT ![s] = FirstLoad(q, w)]
    /\ file_lock' = [file_lock EXCEPT ![s] = TRUE]
    /\ undisturbed' = [undisturbed EXCEPT ![s] = TRUE]
    /\ UNCHANGED <<file, persisted, faults, overlapped>>

\* A browser opens the app's URL, with or without ?endpoint=q: a new session.
NewSession(s, q) ==
    /\ pc[s] = "idle" /\ runs < MaxRuns
    /\ runs' = runs + 1
    /\ query_params' = [query_params EXCEPT ![s] = q]
    /\ post_data' = [post_data EXCEPT ![s] = NoText]
    /\ Begin(s, q, NoWidget)

\* The user reruns the script (the toolbar's Rerun).
Rerun(s) ==
    /\ pc[s] = "idle" /\ runs < MaxRuns
    /\ runs' = runs + 1
    /\ UNCHANGED <<query_params, post_data>>
    /\ Begin(s, query_params[s], NoWidget)

\* The user submits a form or presses a Delete button.  Forms and buttons
\* are on the page only in the management mode.
Submit(s, w) ==
    /\ pc[s] = "idle" /\ runs < MaxRuns
    /\ ~Truthy(query_params[s])
    /\ runs' = runs + 1
    /\ UNCHANGED <<query_params, post_data>>
    /\ Begin(s, query_params[s], w)

CreateSubmit(s, n, t) == Submit(s, [kind |-> "create", name |-> n, text |-> t])
PostSubmit(s, n, t) == Submit(s, [kind |-> "post", name |-> n, text |-> t])
DeleteClick(s, k) == Submit(s, [kind |-> "delete", name |-> k, text |-> <<>>])

\* st.rerun() (lines 114, 145, 182) ended the run; the next one begins.
AutoRerun(s) ==
    /\ pc[s] = "rerun"
    /\ UNCHANGED <<query_params, post_data, runs>>
    /\ Begin(s, query_params[s], NoWidget)

(***************************************************************************)
(* The steps of a run.  Each step is one access to the file, with the      *)
(* statements that follow it up to the next access: they touch only the    *)
(* run's own names and its session.                                        *)
(***************************************************************************)
HoldsLock(p) == p \notin {"idle", "rerun"}

Opening == {"S54o", "S112o", "S181o"}
Writing == {"S54w", "S112w", "S181w"}

\* Session s is at the file while another run's save_endpoints has opened it
\* and not yet written it.
Overlaps(s) == \E t \in Sessions \ {s} : pc[t] \in Writing

\* The ways out of load_endpoints and save_endpoints: "return" (lines 19,
\* 29), "recovered" (line 22, from the except clause), "absent" (line 23),
\* "raised" (an OSError of lines 28-29 leaving the with block).
LoadExit(f) == IF ~f.exists THEN "absent" ELSE IF f.valid THEN "return" ELSE "recovered"

\* A lock released by hand at the end of the block only: not when the block
\* is left from its except clause or by an exception.
ReleasedOnReturn(e) == e \in {"return", "absent"}

\* Lines 15 and 27: the with statement releases file_lock on every way out
\* of its block.
Released(e) == e \in {"return", "recovered", "absent", "raised"}

\* Session s, having read or written the file, leaves the call by the way e
\* and goes on to p with the dict d, the payload i and the output o.  When p
\* is in the next call, the run must take its file_lock there: a
\* threading.Lock the run still holds is never got.
Leave(s, e, p, d, i, o) ==
    /\ HoldsLock(p) => Released(e)
    /\ pc' = [pc EXCEPT ![s] = p]
    /\ file_lock' = [file_lock EXCEPT ![s] = HoldsLock(p) \/ ~Released(e)]
    /\ endpoints_data' = [endpoints_data EXCEPT ![s] = IF HoldsLock(p) THEN d ELSE EmptyMap]
    /\ widget' = [widget EXCEPT ![s] =
            IF p \in {"idle", "rerun"} \/ (p = "L156" /\ @.kind # "delete")
            THEN NoWidget ELSE @]
    /\ incoming_data' = [incoming_data EXCEPT ![s] = i]
    /\ out' = [out EXCEPT ![s] = o]
    /\ overlapped' = (overlapped \/ Overlaps(s))

\* Session s, having read the file in load_endpoints, goes on to p.
Goto(s, p, d, i, o) == Leave(s, LoadExit(file), p, d, i, o)

\* Line 50 without its test of the endpoint's presence.
TakesUpdateUnchecked(pd, name, data) == pd # NoText

\* Line 50: the staged update is applied when post_data is in the session
\* state and the endpoint is in the loaded dict.
TakesUpdate(pd, name, data) == pd # NoText /\ name \in DOMAIN data

\* Lines 62 and 70 without st.stop(): the script goes on to line 73.
AfterApiFallsThrough == "L156"

\* Lines 62 and 70: st.stop() ends the run.
AfterApi == "idle"

\* Line 141 left out: the text is staged as it is.
PostValidSkipped(t) == TRUE

\* Line 141: json.loads(post_json_data) returns.
PostValid(t) == json_loads(t).ok

\* Lines 65-69: the GET answer.
GetResponse(name, data) ==
    IF name \in DOMAIN data THEN Shown("document", data[name])
    ELSE Shown("not_found_404", NoDoc)

\* Lines 46-70, from the read of load_endpoints on.  An exception other than
\* json.JSONDecodeError leaves the try through finally, where st.stop()
\* replaces it: the run ends and has shown nothing.
ApiLoad(s) ==
    /\ pc[s] = "L46"
    /\ LET data == load_endpoints(file)
           name == endpoint_name[s]
           parsed == json_loads(post_data[s])
           upd == IF name \in DOMAIN data THEN DictUpdate(data[name], parsed.val)
                  ELSE [exc |-> "KeyError", val |-> NoDoc]
       IN  IF TakesUpdate(post_data[s], name, data)
           THEN /\ routed' = [routed EXCEPT ![s] = Routed("APPLY_UPDATE", TRUE)]
                /\ IF ~parsed.ok
                   THEN Goto(s, AfterApi, data, NoDoc, Shown("bad_request_400", NoDoc))
                   ELSE IF upd.exc # "none"
                   THEN Goto(s, AfterApi, data, parsed.val, Nothing)
                   ELSE Goto(s, "S54o", [data EXCEPT ![name] = upd.val], parsed.val, Nothing)
           ELSE /\ routed' = [routed EXCEPT ![s] =
                                 Routed("SERVE_DOCUMENT", post_data[s] # NoText)]
                /\ Goto(s, AfterApi, data, NoDoc, GetResponse(name, data))
    /\ UNCHANGED <<file, persisted, query_params, post_data, endpoint_name, runs,
                   faults, undisturbed>>

\* Lines 110-116 with line 111 merging the new document into an object the
\* name already has, instead of assigning it.
CreateLoadMerging(s) ==
    /\ pc[s] = "L110"
    /\ LET data == load_endpoints(file)
           clean_name == CleanName(widget[s].name)
           parsed == json_loads(widget[s].text)
           merged == IF clean_name \in DOMAIN data /\ IsObject(data[clean_name])
                        /\ IsObject(parsed.val)
                     THEN JObject(Merge(data[clean_name].obj, parsed.val.obj))
                     ELSE parsed.val
       IN  IF parsed.ok
           THEN Goto(s, "S112o", (clean_name :> merged) @@ data, NoDoc, Nothing)
           ELSE Goto(s, "L156", data, NoDoc, Shown("create_invalid_json", NoDoc))
    /\ UNCHANGED <<file, persisted, query_params, post_data, endpoint_name, routed,
                   runs, faults, undisturbed>>

\* Lines 110-116.  json.loads raises before the dict is changed.
CreateLoad(s) ==
    /\ pc[s] = "L110"
    /\ LET data == load_endpoints(file)
           clean_name == CleanName(widget[s].name)
           parsed == json_loads(widget[s].text)
       IN  IF parsed.ok
           THEN Goto(s, "S112o", (clean_name :> parsed.val) @@ data, NoDoc, Nothing)
           ELSE Goto(s, "L156", data, NoDoc, Shown("create_invalid_json", NoDoc))
    /\ UNCHANGED <<file, persisted, query_params, post_data, endpoint_name, routed,
                   runs, faults, undisturbed>>

\* Lines 136-149.
PostLoad(s) ==
    /\ pc[s] = "L136"
    /\ LET data == load_endpoints(file)
           clean_post_name == CleanName(widget[s].name)
       IN  IF clean_post_name \in DOMAIN data /\ PostValid(widget[s].text)
           THEN /\ post_data' = [post_data EXCEPT ![s] = widget[s].text]
                /\ query_params' = [query_params EXCEPT ![s] = clean_post_name]
                /\ Goto(s, "rerun", data, NoDoc, Nothing)
           ELSE /\ UNCHANGED <<post_data, query_params>>
                /\ Goto(s, "L156", data, NoDoc,
                        IF clean_post_name \in DOMAIN data
                        THEN Shown("update_invalid_json", NoDoc)
                        ELSE Shown("update_not_found", NoDoc))
    /\ UNCHANGED <<file, persisted, endpoint_name, routed, runs, faults, undisturbed>>

\* Lines 156-184 with a listing that writes back the mapping it loaded.
ListLoadSaving(s) ==
    /\ pc[s] = "L156"
    /\ Goto(s, "S181o", load_endpoints(file), NoDoc, out[s])
    /\ UNCHANGED <<file, persisted, query_params, post_data, endpoint_name, routed,
                   runs, faults, undisturbed>>

\* Lines 156-184.  A Delete button is drawn for every key of the dict, and
\* only a drawn button can report a press.
ListLoad(s) ==
    /\ pc[s] = "L156"
    /\ LET data == load_endpoints(file)
       IN  IF widget[s].kind = "delete" /\ widget[s].name \in DOMAIN data
           THEN Goto(s, "L178", data, NoDoc, out[s])
           ELSE Goto(s, "idle", data, NoDoc,
                     IF out[s] = Nothing THEN Shown("management_view", NoDoc) ELSE out[s])
    /\ UNCHANGED <<file, persisted, query_params, post_data, endpoint_name, routed,
                   runs, faults, undisturbed>>

\* Lines 178-182 without the test of line 179: the key is dropped if it is
\* there and the mapping is saved in any case.
DeleteLoadUnchecked(s) ==
    /\ pc[s] = "L178"
    /\ LET endpoints == load_endpoints(file)
           key == widget[s].name
       IN  Goto(s, "S181o", [n \in (DOMAIN endpoints) \ {key} |-> endpoints[n]],
                NoDoc, out[s])
    /\ UNCHANGED <<file, persisted, query_params, post_data, endpoint_name, routed,
                   runs, faults, undisturbed>>

\* Lines 178-182.
DeleteLoad(s) ==
    /\ pc[s] = "L178"
    /\ LET endpoints == load_endpoints(file)
           key == widget[s].name
       IN  IF key \in DOMAIN endpoints
           THEN Goto(s, "S181o", [n \in (DOMAIN endpoints) \ {key} |-> endpoints[n]],
                     NoDoc, out[s])
           ELSE Goto(s, "idle", endpoints, NoDoc, Shown("management_view", NoDoc))
    /\ UNCHANGED <<file, persisted, query_params, post_data, endpoint_name, routed,
                   runs, faults, undisturbed>>

(***************************************************************************)
(* save_endpoints (lines 25-29), called at lines 54, 112 and 181.          *)
(* pc "S<n>o" is: lock held, file not yet opened; "S<n>w": file opened for *)
(* writing, text not yet written.                                          *)
(***************************************************************************)
Opened(p) == IF p = "S54o" THEN "S54w" ELSE IF p = "S112o" THEN "S112w" ELSE "S181w"

InUpdate(p) == p \in {"S54o", "S54w"}
InCreate(p) == p \in {"S112o", "S112w"}

\* The name the handler that is saving works on: endpoint_name (line 53),
\* clean_name (line 111), key (line 180).
Target(s) ==
    IF InUpdate(pc[s]) THEN endpoint_name[s]
    ELSE IF InCreate(pc[s]) THEN CleanName(widget[s].name)
    ELSE widget[s].name

\* Line 28, the open.
SaveOpen(s) ==
    /\ pc[s] \in Opening
    /\ file' = OpenForWrite(file)
    /\ pc' = [pc EXCEPT ![s] = Opened(pc[s])]
    /\ overlapped' = (overlapped \/ Overlaps(s))
    /\ UNCHANGED <<persisted, query_params, post_data, file_lock, widget, endpoint_name,
                   endpoints_data, incoming_data, out, routed, runs, faults, undisturbed>>

\* What follows a save that returned: lines 55-62, lines 113-114, line 182.
AfterSave(s) ==
    IF InUpdate(pc[s])
    THEN /\ post_data' = [post_data EXCEPT ![s] = NoText]
         /\ Leave(s, "return", AfterApi, EmptyMap, incoming_data[s], Shown("success", NoDoc))
    ELSE /\ UNCHANGED post_data
         /\ Leave(s, "return", "rerun", EmptyMap, incoming_data[s],
                  IF InCreate(pc[s]) THEN Shown("create_saved", NoDoc) ELSE out[s])

\* What follows a save that raised OSError: in the API mode finally's
\* st.stop() (line 62) replaces the exception; the forms' handlers catch only
\* json.JSONDecodeError, and Streamlit shows the exception and ends the run.
AfterSaveError(s) ==
    /\ UNCHANGED post_data
    /\ IF InUpdate(pc[s])
       THEN Leave(s, "raised", AfterApi, EmptyMap, incoming_data[s], Nothing)
       ELSE Leave(s, "raised", "idle", EmptyMap, incoming_data[s], Shown("exception", NoDoc))

\* A save by anything but a staged update ends the calm of every run.
Disturb(s) == IF InUpdate(pc[s]) THEN undisturbed ELSE [t \in Sessions |-> FALSE]

\* Lines 28-29, json.dump and the close.
SaveWrite(s) ==
    /\ pc[s] \in Writing
    /\ file' = WriteText(file, endpoints_data[s])
    /\ persisted' = IF file'.valid THEN file'.data ELSE persisted
    /\ undisturbed' = Disturb(s)
    /\ AfterSave(s)
    /\ UNCHANGED <<query_params, endpoint_name, routed, runs, faults>>

\* Line 28: open raises OSError; the file is as it was.
SaveOpenFail(s) ==
    /\ pc[s] \in Opening
    /\ faults < MaxFaults
    /\ faults' = faults + 1
    /\ AfterSaveError(s)
    /\ UNCHANGED <<file, persisted, query_params, endpoint_name, routed, runs, undisturbed>>

\* Lines 28-29: the write raises OSError, with none or all but one of the
\* text's characters in the file.
SaveWriteFail(s) ==
    /\ pc[s] \in Writing
    /\ faults < MaxFaults
    /\ faults' = faults + 1
    /\ \E n \in {0, DumpSize(endpoints_data[s]) - 1} :
           file' = WritePart(file, endpoints_data[s], n)
    /\ undisturbed' = [t \in Sessions |-> FALSE]
    /\ AfterSaveError(s)
    /\ UNCHANGED <<persisted, query_params, endpoint_name, routed, runs>>

Next ==
    \E s \in Sessions :
        \/ \E q \in QueryNames : NewSession(s, q)
        \/ Rerun(s)
        \/ \E n \in RawNames, t \in Texts : CreateSubmit(s, n, t)
        \/ \E n \in RawNames, t \in Texts : PostSubmit(s, n, t)
        \/ \E k \in KeyNames : DeleteClick(s, k)
        \/ AutoRerun(s)
        \/ ApiLoad(s)
        \/ CreateLoad(s)
        \/ PostLoad(s)
        \/ ListLoad(s)
        \/ DeleteLoad(s)
        \/ SaveOpen(s)
        \/ SaveWrite(s)
        \/ SaveOpenFail(s)
        \/ SaveWriteFail(s)

Spec == Init /\ [][Next]_vars

(***************************************************************************)
(* Fair scheduling: the thread of a script run that can take its next step *)
(* takes it, and a rerun asked for by st.rerun() begins.  I/O errors and    *)
(* the users' events are not owed.  The users work on one endpoint, "a".   *)
(***************************************************************************)
LiveNames == {NameEmpty, NameA}
LiveTexts == {TextK1, TextBad}
LiveQueries == {NoName, NameA}

Step(s) ==
    \/ AutoRerun(s)
    \/ ApiLoad(s)
    \/ CreateLoad(s)
    \/ PostLoad(s)
    \/ ListLoad(s)
    \/ DeleteLoad(s)
    \/ SaveOpen(s)
    \/ SaveWrite(s)

FairNext ==
    \E s \in Sessions :
        \/ \E q \in LiveQueries : NewSession(s, q)
        \/ Rerun(s)
        \/ \E n \in LiveNames, t \in LiveTexts : CreateSubmit(s, n, t)
        \/ \E n \in LiveNames, t \in LiveTexts : PostSubmit(s, n, t)
        \/ DeleteClick(s, NameA)
        \/ Step(s)
        \/ SaveOpenFail(s)
        \/ SaveWriteFail(s)

FairSpec == Init /\ [][FairNext]_vars /\ \A s \in Sessions : WF_vars(Step(s))

(***************************************************************************)
(* One script run at a time and no I/O error: the sequential executions,   *)
(* with more names, texts and files than Spec draws.                       *)
(***************************************************************************)
TextK1Two == <<"{", "k1", ":", "2", "}">>
TextString == <<"k1">>

SeqTexts == {TextEmpty, TextK1Two, TextK2, TextNumber, TextString, TextBad}

NameBlank == <<" ">>
NameSpaced == <<" ", "A", " ", "b", " ">>

SeqNames == {NameEmpty, NameA, NameB, NameBlank, NameSpaced}
SeqKeys == {CleanName(n) : n \in SeqNames \ {NameEmpty}}
SeqQueries == {NoName} \cup SeqNames \cup SeqKeys

DocK1 == JObject([k \in {"k1"} |-> 1])

SeqFiles == {AbsentFile,
             WholeFile(NameA :> DocK1),
             WholeFile((NameA :> DocK1) @@ (KeyB :> JNumber(2)))}

SeqInit ==
    /\ file \in SeqFiles
    /\ query_params = [s \in Sessions |-> NoName]
    /\ post_data = [s \in Sessions |-> NoText]
    /\ pc = [s \in Sessions |-> "idle"]
    /\ file_lock = [s \in Sessions |-> FALSE]
    /\ widget = [s \in Sessions |-> NoWidget]
    /\ endpoint_name = [s \in Sessions |-> NoName]
    /\ endpoints_data = [s \in Sessions |-> EmptyMap]
    /\ incoming_data = [s \in Sessions |-> NoDoc]
    /\ out = [s \in Sessions |-> Nothing]
    /\ routed = [s \in Sessions |-> Routed("none", FALSE)]
    /\ runs = 0
    /\ faults = 0
    /\ persisted = load_endpoints(file)
    /\ undisturbed = [s \in Sessions |-> TRUE]
    /\ overlapped = FALSE

\* No other session is in a script run (or about to rerun).
Alone(s) == \A t \in Sessions \ {s} : pc[t] = "idle"

SeqNext ==
    \E s \in Sessions :
        /\ Alone(s)
        /\ \/ \E q \in SeqQueries : NewSession(s, q)
           \/ Rerun(s)
           \/ \E n \in SeqNames, t \in SeqTexts : CreateSubmit(s, n, t)
           \/ \E n \in SeqNames, t \in SeqTexts : PostSubmit(s, n, t)
           \/ \E k \in SeqKeys : DeleteClick(s, k)
           \/ AutoRerun(s)
           \/ ApiLoad(s)
           \/ CreateLoad(s)
           \/ PostLoad(s)
           \/ ListLoad(s)
           \/ DeleteLoad(s)
           \/ SaveOpen(s)
           \/ SaveWrite(s)

SeqSpec == SeqInit /\ [][SeqNext]_vars

(***************************************************************************)
(* Properties.                                                             *)
(***************************************************************************)
Loading == {"L46", "L110", "L136", "L156", "L178"}
ApiPlaces == {"idle", "L46", "S54o", "S54w"}
ApiStatuses == {"none", "document", "not_found_404", "bad_request_400", "success"}

\* The document stored under n in m, NoDoc when there is none.
Entry(m, n) == IF n \in DOMAIN m THEN m[n] ELSE NoDoc

\* Session s takes a step from place p.
Leaves(s, p) == pc[s] = p /\ pc'[s] # p

\* The run of s was a staged update that answered success, with an object
\* as payload, and no create, delete or failed write fell into it.
MergedCalmly(s) ==
    /\ pc[s] = "idle" /\ out[s].status = "success"
    /\ routed[s].action = "APPLY_UPDATE"
    /\ IsObject(incoming_data[s])
    /\ undisturbed[s]

\* C1: when concurrent merge-updates of one endpoint, each adding a key of
\* its own, have all answered, the document in the file has all their keys,
\* however their load_endpoints and save_endpoints calls were interleaved
\* (the calls themselves one at a time).
C1_AllKeysPersisted ==
    \A s, t \in Sessions :
        ( /\ s # t /\ ~overlapped
          /\ MergedCalmly(s) /\ MergedCalmly(t)
          /\ endpoint_name[s] = endpoint_name[t]
          /\ (DOMAIN incoming_data[s].obj) \cap (DOMAIN incoming_data[t].obj) = {} )
        => /\ file.valid
           /\ endpoint_name[s] \in DOMAIN file.data
           /\ IsObject(file.data[endpoint_name[s]])
           /\ (DOMAIN incoming_data[s].obj) \cup (DOMAIN incoming_data[t].obj)
                  \subseteq DOMAIN file.data[endpoint_name[s]].obj

\* C2: a save changes the entry of no name but its handler's target: after
\* the write every other name has the document it had in the last complete
\* snapshot, or is absent as it was there, however the load_endpoints and
\* save_endpoints calls of the operations were interleaved (the calls
\* themselves one at a time, and none failing).
C2_SaveKeepsOtherNames ==
    [][\A s \in Sessions :
          ( /\ pc[s] \in Writing /\ pc'[s] \notin Writing /\ file'.valid
            /\ ~overlapped' /\ faults' = 0 )
          => \A n \in ((DOMAIN persisted) \cup (DOMAIN file'.data)) \ {Target(s)} :
                 Entry(file'.data, n) = Entry(persisted, n)]_vars

\* C3: the save of a merge-update makes no name present that was absent from
\* the persisted mapping, however the load_endpoints and save_endpoints calls
\* of create, merge-update and delete were interleaved (the calls themselves
\* one at a time, and none failing).
C3_UpdateNeverCreates ==
    [][\A s \in Sessions :
          (Leaves(s, "S54w") /\ ~overlapped' /\ faults' = 0)
          => DOMAIN load_endpoints(file') \subseteq DOMAIN persisted]_vars

\* C4: while a save_endpoints is between opening (truncating) the file and
\* finishing its write, no other save_endpoints is there and no
\* load_endpoints is about to read.
C4_SaveExcludesSaveAndLoad ==
    \A s, t \in Sessions :
        (s # t /\ pc[s] \in Writing) => pc[t] \notin (Writing \cup Loading)

\* C5: after a save_endpoints that failed while writing, load_endpoints
\* returns the mapping persisted before it.
C5_FailedSaveKeepsSnapshot ==
    [][\A s \in Sessions :
          (pc[s] \in Writing /\ pc'[s] \notin Writing /\ faults' # faults)
          => load_endpoints(file') = persisted]_vars

\* C6: a run whose endpoint parameter is a non-empty name stays in lines
\* 45-70: it is never routed to the management view, shows nothing but the
\* JSON answers, and has stopped once it has shown one.
C6_ApiRunIsTerminal ==
    \A s \in Sessions :
        Truthy(endpoint_name[s])
        => /\ pc[s] \in ApiPlaces
           /\ routed[s].action # "RENDER_MANAGEMENT_VIEW"
           /\ out[s].status \in ApiStatuses
           /\ (out[s].status # "none" => pc[s] = "idle")

\* A staged update has answered success and stopped, and a GET has answered
\* the document and stopped.
C6_Witness ==
    \E s, t \in Sessions :
        /\ pc[s] = "idle" /\ Truthy(endpoint_name[s]) /\ out[s].status = "success"
        /\ pc[t] = "idle" /\ Truthy(endpoint_name[t]) /\ out[t].status = "document"

\* The classification of the specification: by the target name and the
\* staged payload alone.
Classify(name, staged) ==
    IF ~Truthy(name) THEN "RENDER_MANAGEMENT_VIEW"
    ELSE IF staged THEN "APPLY_UPDATE"
    ELSE "SERVE_DOCUMENT"

\* C7: every run is routed by its target name and staged payload alone: no
\* name, management view; name and payload, apply-update; name and no
\* payload, serve-document (also when every load_endpoints read a complete
\* file and no save_endpoints failed).
C7_RouterClassification ==
    \A s \in Sessions :
        (routed[s].action # "none" /\ ~overlapped /\ faults = 0)
        => routed[s].action = Classify(endpoint_name[s], routed[s].staged)

\* C8: a merge-update whose target is not in the dict load_endpoints returns
\* answers not-found (404 in the API mode, the form's error) and the run goes
\* on without a save: the file is as it was.
C8_AbsentTargetIsNotFound ==
    [][\A s \in Sessions :
          /\ ( /\ Leaves(s, "L46")
               /\ post_data[s] # NoText
               /\ endpoint_name[s] \notin DOMAIN load_endpoints(file) )
             => /\ out'[s].status = "not_found_404"
                /\ pc'[s] = "idle"
                /\ file' = file
          /\ ( /\ Leaves(s, "L136")
               /\ CleanName(widget[s].name) \notin DOMAIN load_endpoints(file) )
             => /\ out'[s].status = "update_not_found"
                /\ pc'[s] = "L156" /\ widget'[s].kind # "delete"
                /\ post_data'[s] = post_data[s]
                /\ file' = file]_vars

\* A staged update found its target gone from the file and answered 404.
C8_Witness ==
    \E s \in Sessions :
        /\ pc[s] = "idle" /\ post_data[s] # NoText /\ ~overlapped /\ faults = 0
        /\ routed[s] = Routed("SERVE_DOCUMENT", TRUE)
        /\ endpoint_name[s] \notin DOMAIN load_endpoints(file)
        /\ out[s].status = "not_found_404"

\* C9: a merge-update whose payload or whose existing document is JSON but
\* not an object answers 400 and stops without a save.
C9_NonObjectIsBadDocument ==
    [][\A s \in Sessions :
          LET data == load_endpoints(file)
              parsed == json_loads(post_data[s])
          IN  ( /\ Leaves(s, "L46")
                /\ TakesUpdate(post_data[s], endpoint_name[s], data)
                /\ parsed.ok
                /\ (~IsObject(parsed.val) \/ ~IsObject(data[endpoint_name[s]])) )
              => /\ out'[s].status = "bad_request_400"
                 /\ pc'[s] = "idle"
                 /\ file' = file]_vars

\* C10, as stated: an update whose payload is not well-formed JSON gets the
\* bad-request answer, and neither the session nor the file changes.
C10_MalformedIsBadRequest ==
    [][\A s \in Sessions :
          (Leaves(s, "L136") /\ ~json_loads(widget[s].text).ok)
          => /\ out'[s].status = "update_invalid_json"
             /\ post_data'[s] = post_data[s]
             /\ file' = file]_vars

\* C10, amended: the update form answers a payload that is not well-formed
\* JSON with "invalid JSON" when the target is in the loaded dict and with
\* "not found" when it is not; it stages nothing and goes on to the listing
\* without a save.  No text json.loads rejects is ever staged, and were one
\* staged the API mode would answer 400 and stop without a save.
C10_MalformedIsReported ==
    [][\A s \in Sessions :
          /\ (Leaves(s, "L136") /\ ~json_loads(widget[s].text).ok)
             => /\ out'[s].status =
                       IF CleanName(widget[s].name) \in DOMAIN load_endpoints(file)
                       THEN "update_invalid_json" ELSE "update_not_found"
                /\ pc'[s] = "L156" /\ widget'[s].kind # "delete"
                /\ post_data'[s] = post_data[s]
                /\ file' = file
          /\ post_data'[s] # NoText => json_loads(post_data'[s]).ok
          /\ ( /\ Leaves(s, "L46")
               /\ TakesUpdate(post_data[s], endpoint_name[s], load_endpoints(file))
               /\ ~json_loads(post_data[s]).ok )
             => /\ out'[s].status = "bad_request_400"
                /\ pc'[s] = "idle"
                /\ file' = file]_vars

\* The update form has answered "invalid JSON" in one session and, to a
\* payload given for an unknown endpoint, "not found" in another.
C10_Witness ==
    \E s, t \in Sessions :
        /\ s # t
        /\ out[s].status = "update_invalid_json"
        /\ out[t].status = "update_not_found"

\* C11: in a sequential execution, a merge-update of the object payload P
\* into the object document E of name N that answers success leaves in the
\* file, for N, the object with the keys of E and of P, P's value for every
\* key of P and E's value for every other key, and leaves the document of
\* every other name as it was.
C11_MergeSemantics ==
    [][\A s \in Sessions :
          (Leaves(s, "S54w") /\ IsObject(incoming_data[s]))
          => LET N == endpoint_name[s]
                 E == persisted[N].obj
                 P == incoming_data[s].obj
             IN  /\ out'[s].status = "success"
                 /\ file'.valid /\ N \in DOMAIN file'.data
                 /\ IsObject(file'.data[N])
                 /\ DOMAIN file'.data[N].obj = (DOMAIN E) \cup (DOMAIN P)
                 /\ \A k \in DOMAIN P : file'.data[N].obj[k] = P[k]
                 /\ \A k \in (DOMAIN E) \ (DOMAIN P) : file'.data[N].obj[k] = E[k]
                 /\ \A m \in ((DOMAIN persisted) \cup (DOMAIN file'.data)) \ {N} :
                        Entry(file'.data, m) = Entry(persisted, m)]_vars

\* Two merge-updates of "a", which held {"k1": 1}, have answered success: the
\* first added k2, the second overwrote k1 and left k2, and "b" is as it was.
C11_Witness ==
    \E s, t \in Sessions :
        /\ s # t
        /\ pc[s] = "idle" /\ out[s].status = "success"
        /\ pc[t] = "idle" /\ out[t].status = "success"
        /\ incoming_data[s] = JObject([k \in {"k2"} |-> 1])
        /\ incoming_data[t] = JObject([k \in {"k1"} |-> 2])
        /\ file.valid
        /\ file.data = (NameA :> JObject([k \in Keys |-> IF k = "k1" THEN 2 ELSE 1]))
                        @@ (KeyB :> JNumber(2))

\* C12: in a sequential execution, once the create form's save of (N, D) has
\* returned, a GET with endpoint=N, the name as it was submitted, answers
\* the document D.
C12_RoundTrip ==
    [][\A s \in Sessions :
          Leaves(s, "S112w")
          => GetResponse(widget[s].name, load_endpoints(file'))
                 = Shown("document", json_loads(widget[s].text).val)]_vars

\* A normalized endpoint name: not empty, no upper-case letter, no space.
Normalized(n) == n # <<>> /\ \A i \in DOMAIN n : n[i] \notin {" ", "A", "B"}

\* C13: every key of the mapping in the file is a normalized endpoint name,
\* whatever names were submitted to the create form.
C13_KeysAreNormalized ==
    \A n \in DOMAIN load_endpoints(file) : Normalized(n)

\* C14: in a sequential execution, the create form's save of (name, D)
\* leaves D as the document of the cleaned name, whatever the name had
\* before, and every other entry as it was; so a create of (name, D) over a
\* mapping that already has D under that name leaves the mapping as it is.
C14_CreateReplaces ==
    [][\A s \in Sessions :
          Leaves(s, "S112w")
          => LET n == CleanName(widget[s].name)
                 D == json_loads(widget[s].text).val
             IN  /\ file'.valid
                 /\ \A m \in (DOMAIN persisted) \cup (DOMAIN file'.data) \cup {n} :
                        Entry(file'.data, m) = IF m = n THEN D ELSE Entry(persisted, m)
                 /\ Entry(persisted, n) = D => load_endpoints(file') = persisted]_vars

\* A second run has saved {"k2": 1} for "a", which held an object with k1:
\* "a" now holds {"k2": 1} alone.
C14_Witness ==
    \E s \in Sessions :
        /\ pc[s] = "rerun" /\ out[s].status = "create_saved" /\ runs = 2
        /\ file.valid /\ NameA \in DOMAIN file.data
        /\ file.data[NameA] = JObject([k \in {"k2"} |-> 1])

\* The file exists and json.load rejects its text.
Corrupt(f) == f.exists /\ ~f.valid

\* C15: a load_endpoints that finds the file unparseable returns {} without
\* raising: the handler goes on as with an empty mapping (the GET answers
\* 404, the update form "not found", the create form assigns to an empty
\* dict, the listing shows no endpoint).  And a save_endpoints that no other
\* run's file access falls into and that meets no I/O error leaves a file
\* from which load_endpoints returns exactly the mapping saved.
C15_CorruptFileRecovery ==
    [][\A s \in Sessions :
          /\ (Leaves(s, "L46") /\ Corrupt(file))
             => out'[s].status = "not_found_404" /\ pc'[s] = "idle"
          /\ (Leaves(s, "L136") /\ Corrupt(file))
             => out'[s].status = "update_not_found" /\ pc'[s] = "L156"
          /\ (Leaves(s, "L110") /\ Corrupt(file) /\ json_loads(widget[s].text).ok)
             => /\ pc'[s] = "S112o"
                /\ DOMAIN endpoints_data'[s] = {CleanName(widget[s].name)}
          /\ (Leaves(s, "L156") /\ Corrupt(file)) => pc'[s] = "idle"
          /\ (Leaves(s, "L178") /\ Corrupt(file)) => pc'[s] = "idle"
          /\ (pc[s] \in Writing /\ pc'[s] \notin Writing /\ faults' = faults /\ ~overlapped')
             => file'.valid /\ load_endpoints(file') = endpoints_data[s]]_vars

\* A failed write has left the file unparseable while "a" was persisted; a
\* create has since loaded {} from it, assigned "b", and opened the file to
\* save.
C15_Witness ==
    \E s \in Sessions :
        /\ pc[s] = "S112w" /\ faults = 1 /\ ~overlapped
        /\ NameA \in DOMAIN persisted
        /\ DOMAIN endpoints_data[s] = {KeyB}

\* The create form's messages of rejection (lines 116, 118).
Rejected == {"create_missing_input", "create_invalid_json"}

\* Lines 106-107, 117-118 over every create submitted in the management mode
\* with its name or its body empty: the run shows the warning, reads no
\* widget afterwards and goes on to the listing.
EmptyCreateWarned ==
    \A q \in {NoName, NameEmpty}, n \in RawNames, t \in Texts :
        LET w == [kind |-> "create", name |-> n, text |-> t]
        IN  (n = NameEmpty \/ t = TextEmpty)
            => /\ FirstMessage(q, w) = Shown("create_missing_input", NoDoc)
               /\ FirstLoad(q, w) = "L156"
               /\ Pending(q, w) = NoWidget

\* C16: a run that begins in the management mode with the create form
\* submitted and its name or its body empty shows the warning, reads no
\* widget and goes on to the listing; a create whose body json.loads rejects
\* is answered with the error; the run that has shown either is never in a
\* save, leaves the file as it is, and ends with the message still shown.
C16_InvalidCreateRejected ==
    [][\A s \in Sessions :
          /\ (pc[s] = "idle" /\ pc'[s] # "idle" /\ ~Truthy(query_params'[s]))
             => EmptyCreateWarned
          /\ (pc[s] = "idle" /\ pc'[s] # "idle" /\ out'[s].status \in Rejected)
             => pc'[s] = "L156" /\ file' = file
          /\ (Leaves(s, "L110") /\ ~json_loads(widget[s].text).ok)
             => out'[s].status = "create_invalid_json" /\ file' = file
          /\ out'[s].status \in Rejected
             => pc'[s] \in {"L156", "idle"} /\ widget'[s] = NoWidget
          /\ (out[s].status \in Rejected /\ Leaves(s, "L156"))
             => out'[s] = out[s] /\ pc'[s] = "idle" /\ file' = file]_vars

\* One run has ended showing the warning for an empty field, another
\* showing the error for a body that is not JSON.
C16_Witness ==
    \E s, t \in Sessions :
        /\ pc[s] = "idle" /\ out[s].status = "create_missing_input"
        /\ pc[t] = "idle" /\ out[t].status = "create_invalid_json"

\* C17: the delete handler, when the key is in the mapping it loads, saves
\* that mapping without the key and with every other entry as loaded, and
\* once the save has returned a GET of the key answers 404; when the key is
\* not in the mapping it loads, the run ends without a save and the file is
\* as it was.
C17_DeleteRemovesOneEntry ==
    [][\A s \in Sessions :
          LET key == widget[s].name
              loaded == load_endpoints(file)
          IN  /\ (Leaves(s, "L178") /\ key \in DOMAIN loaded)
                 => /\ pc'[s] = "S181o"
                    /\ DOMAIN endpoints_data'[s] = (DOMAIN loaded) \ {key}
                    /\ \A m \in (DOMAIN loaded) \ {key} : endpoints_data'[s][m] = loaded[m]
                    /\ file' = file
              /\ (Leaves(s, "L178") /\ key \notin DOMAIN loaded)
                 => pc'[s] = "idle" /\ file' = file
              /\ (Leaves(s, "S181w") /\ faults' = faults /\ ~overlapped')
                 => /\ file'.valid
                    /\ load_endpoints(file') = endpoints_data[s]
                    /\ GetResponse(key, load_endpoints(file')) = Shown("not_found_404", NoDoc)]_vars

\* One delete of a key has saved and the key is gone from the file, while
\* another run, which had drawn the key's button and had it pressed, stands
\* in the delete handler about to load a mapping without the key.
C17_Witness ==
    \E s, t \in Sessions :
        /\ s # t /\ ~overlapped /\ faults = 0
        /\ pc[s] = "rerun" /\ pc[t] = "L178"
        /\ file.valid /\ widget[t].name \notin DOMAIN file.data

\* C18: once a run that entered the API mode with post_data in the session
\* state has ended, whatever it answered, no post_data is left in the
\* session state (no I/O error and no torn read being needed for this).
C18_StagedPayloadConsumed ==
    \A s \in Sessions :
        ( /\ pc[s] = "idle" /\ Truthy(endpoint_name[s])
          /\ routed[s].action # "none" /\ routed[s].staged
          /\ faults = 0 /\ ~overlapped )
        => post_data[s] = NoText

\* C19: a run started by a page load or a rerun, with no form submitted and
\* no button pressed, reads the file only: a GET (endpoint name given, no
\* post_data staged) answers the document or 404 and stops, the management
\* view lists the endpoints and ends, and no step of either changes the file
\* or enters save_endpoints.
C19_ReadOnlyRunsNeverWrite ==
    [][\A s \in Sessions :
          /\ ((\E q \in QueryNames : NewSession(s, q)) \/ Rerun(s) \/ AutoRerun(s))
             => /\ pc'[s] \in {"L46", "L156"}
                /\ widget'[s] = NoWidget
                /\ file' = file
          /\ (Leaves(s, "L46") /\ post_data[s] = NoText)
             => /\ pc'[s] = "idle"
                /\ out'[s].status \in {"document", "not_found_404"}
                /\ file' = file
          /\ (Leaves(s, "L156") /\ widget[s] = NoWidget)
             => pc'[s] = "idle" /\ file' = file]_vars

\* A GET has answered the document of "a" and a page load has shown the
\* management view; the file is as it was first.
C19_Witness ==
    \E s, t \in Sessions :
        /\ pc[s] = "idle" /\ out[s] = Shown("document", DocA)
        /\ endpoint_name[s] = NameA /\ post_data[s] = NoText
        /\ pc[t] = "idle" /\ out[t].status = "management_view"
        /\ file = WholeFile(NameA :> DocA)

\* No script run of the session is inside load_endpoints or save_endpoints.
Resting == {"idle", "rerun"}

\* C20: file_lock is never held by a session that is not inside
\* load_endpoints or save_endpoints, whichever way the last call was left;
\* and under fair scheduling every run that is inside a call leaves it and
\* gets the lock for each call that follows, up to the end of the run.
C20_LockReleasedAndAcquired ==
    /\ [](\A s \in Sessions : pc[s] \in Resting => ~file_lock[s])
    /\ \A s \in Sessions : (pc[s] \notin Resting) ~> (pc[s] \in Resting)

\* A save has raised while writing and its run has ended, not holding the
\* lock; a later create has loaded {} from the unparseable file it left and
\* has taken the lock again in save_endpoints.
C20_Witness ==
    \E s, t \in Sessions :
        /\ pc[t] = "idle" /\ out[t].status = "exception" /\ ~file_lock[t]
        /\ pc[s] = "S112o" /\ file_lock[s]
        /\ Corrupt(file) /\ faults = 1

====
